---- MODULE Spec2Model ----
(***************************************************************************)
(* MetaJuke (contracts/metaJuke/src/lib.rs): a Soroban contract for        *)
(* pay-per-play listening tables.  The contract's instance storage is the  *)
(* state; every public function is one action.  A panic inside a call      *)
(* aborts the invocation and the host discards every write and every token *)
(* transfer the call made, so a panicking call leaves the storage as it    *)
(* was.                                                                    *)
(*                                                                         *)
(* Abstractions: sha256 is taken to be injective, so an identifier is the  *)
(* tuple of the values that are hashed; strings (names, titles, URIs) and  *)
(* the joined_at stamp of a membership are left out, no handler branches   *)
(* on them; require_auth is satisfied by the address the call names.       *)
(* Option<T> is a sequence of length at most one.                          *)
(***************************************************************************)
EXTENDS Integers, Sequences, FiniteSets, TLC

\* ----- addresses -----
Users == {"u1", "u2"}
PlatformAdmin == "admin"
Contract == "contract"
Accounts == Users \cup {PlatformAdmin, Contract}
NFTs == {"nft1", "nft2"}

\* ----- bounds of the model -----
MaxTracks == 2
MaxTables == 1
MaxRequests == 2
MaxTime == 1
\* how far below zero member_count may be driven in a build that wraps
MaxUnderflow == 1
\* the amount a holder sends to the contract's address, while custody is below it
MaxDonation == 5
\* how many times advance_queue may pop a queue between two deactivations
MaxPlays == 3

\* ----- inputs the calls are tried with -----
FeeInputs == {500, 15000}
PriceInputs == {3, 1000}
LicenseInputs == {0, 2}
ThresholdInputs == {1, 2}
MultiplierInputs == {10000, 15000}
SplitInputs ==
    { << <<"u1", 50>>, <<"u2", 50>> >>,
      << <<"u1", 90>> >> }

\* ----- constants of the program -----
FeeCap == 2000
BasisPoints == 10000
Percent == 100
\* u32::MAX; TLC's integers are 32-bit signed, the largest one stands for it
U32Max == 2147483647

None == << >>
Some(x) == << x >>
IsNone(o) == o = << >>
Unwrap(o) == o[1]

\* Rust's integer division truncates toward zero
Quot(a, b) == IF a >= 0 THEN a \div b ELSE -((-a) \div b)

RECURSIVE SumSeq(_)
SumSeq(s) == IF s = << >> THEN 0 ELSE Head(s) + SumSeq(Tail(s))

\* token balances held by the payment token contract (TokenStellar)
InitialBalance == [a \in Accounts |->
    IF a = "u1" THEN 2000 ELSE IF a = "u2" THEN 3 ELSE 0]
\* balance of the profile NFT contracts
NftBalance(user, nft) ==
    IF (user = "u1" /\ nft = "nft1") \/ (user = "u2" /\ nft = "nft2") THEN 1 ELSE 0

VARIABLES
    admin,            \* DataKey::Admin
    platform_fee,     \* DataKey::PlatformFee
    users,            \* DataKey::Users / UserToNft: user -> profile_nft
    nft_to_user,      \* DataKey::NftToUser
    artists,          \* DataKey::Artists: artist -> revenue_balance
    tracks,           \* DataKey::Tracks
    tables,           \* DataKey::Tables
    requests,         \* DataKey::Requests
    track_counter,    \* DataKey::TrackIdCounter
    table_counter,    \* DataKey::TableIdCounter
    request_counter,  \* DataKey::RequestIdCounter
    members,          \* DataKey::TableMembers: <<table, user>> -> is_admin
    table_admins,     \* DataKey::TableAdmins
    balance,          \* balances of the payment token
    advance_log,      \* history: table -> was the queue empty at its latest advance_queue
    queue_log,        \* history: table -> the tracks accepted and the tracks made current
    now,              \* env.ledger().timestamp()
    overflow_checks,  \* the build: does integer overflow panic (TRUE) or wrap (FALSE)
    last              \* the most recent call: arguments, outcome, storage before it

storage_vars == << admin, platform_fee, users, nft_to_user, artists, tracks, tables,
                   requests, track_counter, table_counter, request_counter, members,
                   table_admins, balance, advance_log, queue_log >>
vars == << storage_vars, now, overflow_checks, last >>

\* the instance storage and the token balances as one value
Storage ==
    [ admin |-> admin, platform_fee |-> platform_fee, users |-> users,
      nft_to_user |-> nft_to_user, artists |-> artists, tracks |-> tracks,
      tables |-> tables, requests |-> requests, track_counter |-> track_counter,
      table_counter |-> table_counter, request_counter |-> request_counter,
      members |-> members, table_admins |-> table_admins, balance |-> balance,
      advance_log |-> advance_log, queue_log |-> queue_log ]

Has(map, key) == key \in DOMAIN map
Put(map, key, val) == [k \in (DOMAIN map) \cup {key} |-> IF k = key THEN val ELSE map[k]]
Remove(map, key) == [k \in (DOMAIN map) \ {key} |-> map[k]]
EmptyMap == [k \in {} |-> 0]

\* ----- outcome of a call -----
Panic(S, msg) == [ok |-> FALSE, err |-> msg, st |-> S, ret |-> None, xfers |-> << >>]
Done(S, ret, xfers) == [ok |-> TRUE, err |-> "", st |-> S, ret |-> ret, xfers |-> xfers]

\* token::Client::transfer: fails on a negative amount or an insufficient balance
TransferOk(bal, from, amount) == amount >= 0 /\ bal[from] >= amount
Transfer(bal, from, to, amount) ==
    [a \in DOMAIN bal |->
        bal[a] - (IF a = from THEN amount ELSE 0) + (IF a = to THEN amount ELSE 0)]

\* ----- configuration -----
initialize(S, adm, fee) ==
    IF ~IsNone(S.admin) THEN Panic(S, "Contract already initialized")
    ELSE Done([S EXCEPT !.admin = Some(adm), !.platform_fee = Some(fee),
                        !.track_counter = Some(0), !.table_counter = Some(0),
                        !.request_counter = Some(0)], None, << >>)

update_platform_fee(S, new_fee) ==
    IF IsNone(S.admin) THEN Panic(S, "unwrap on None")
    ELSE IF new_fee > FeeCap THEN Panic(S, "Fee too high")
    ELSE Done([S EXCEPT !.platform_fee = Some(new_fee)], None, << >>)

\* ----- identity registry -----
verify_nft_ownership(S, user, nft) ==
    IF NftBalance(user, nft) < 1 THEN FALSE
    ELSE IF Has(S.nft_to_user, nft) THEN S.nft_to_user[nft] = user
    ELSE TRUE

register_user(S, user, nft) ==
    IF ~verify_nft_ownership(S, user, nft) THEN Panic(S, "User doesn't own the NFT")
    ELSE IF Has(S.users, user) THEN Panic(S, "User already registered")
    ELSE IF Has(S.nft_to_user, nft) THEN Panic(S, "NFT already associated with another user")
    ELSE Done([S EXCEPT !.users = Put(@, user, nft),
                        !.nft_to_user = Put(@, nft, user)], None, << >>)

register_artist(S, user) ==
    IF ~Has(S.users, user) THEN Panic(S, "User not registered")
    ELSE IF Has(S.artists, user) THEN Panic(S, "Already registered as artist")
    ELSE Done([S EXCEPT !.artists = Put(@, user, 0)], None, << >>)

\* ----- track catalog -----
RECURSIVE total_split(_)
total_split(royalty_split) ==
    IF royalty_split = << >> THEN 0
    ELSE Head(royalty_split)[2] + total_split(Tail(royalty_split))

mint_track(S, artist, base_price, licenses, royalty_split) ==
    IF ~Has(S.artists, artist) THEN Panic(S, "Not registered as artist")
    ELSE IF total_split(royalty_split) # Percent THEN Panic(S, "Royalty splits must total 100%")
    ELSE IF IsNone(S.track_counter) THEN Panic(S, "unwrap on None")
    ELSE LET counter == Unwrap(S.track_counter) + 1
             track_id == counter
             new_track == [artist_id |-> artist, play_count |-> 0,
                           base_price |-> base_price, licenses_remaining |-> licenses,
                           royalty_split |-> royalty_split]
         IN Done([S EXCEPT !.tracks = Put(@, track_id, new_track),
                           !.track_counter = Some(counter)], Some(track_id), << >>)

update_track(S, artist, track_id, new_base_price, new_licenses) ==
    IF ~Has(S.tracks, track_id) THEN Panic(S, "unwrap on None")
    ELSE IF S.tracks[track_id].artist_id # artist THEN Panic(S, "Not track owner")
    ELSE Done([S EXCEPT !.tracks[track_id].base_price = new_base_price,
                        !.tracks[track_id].licenses_remaining = new_licenses],
              None, << >>)

\* ----- tables -----
create_table(S, owner, skip_threshold, price_multiplier) ==
    IF ~Has(S.users, owner) THEN Panic(S, "User not registered")
    ELSE IF IsNone(S.table_counter) THEN Panic(S, "unwrap on None")
    ELSE LET counter == Unwrap(S.table_counter) + 1
             table_id == counter
             new_table == [owner |-> owner, current_track |-> None, queue |-> << >>,
                           skip_votes |-> {}, skip_threshold |-> skip_threshold,
                           price_multiplier |-> price_multiplier, member_count |-> 0,
                           is_active |-> TRUE]
         IN Done([S EXCEPT !.tables = Put(@, table_id, new_table),
                           !.table_counter = Some(counter)], Some(table_id), << >>)

update_table(S, owner, table_id, skip_threshold, price_multiplier) ==
    IF ~Has(S.tables, table_id) THEN Panic(S, "unwrap on None")
    ELSE IF S.tables[table_id].owner # owner THEN Panic(S, "Not table owner")
    ELSE Done([S EXCEPT !.tables[table_id].skip_threshold = skip_threshold,
                        !.tables[table_id].price_multiplier = price_multiplier],
              None, << >>)

\* ----- history of a table's queue since the table was last deactivated -----
NoQueueLog == [accepted |-> << >>, played |-> << >>]
QueueLogOf(S, table_id) ==
    IF Has(S.queue_log, table_id) THEN S.queue_log[table_id] ELSE NoQueueLog
LogAccepted(S, table_id, track_id) ==
    Put(S.queue_log, table_id,
        [QueueLogOf(S, table_id) EXCEPT !.accepted = Append(@, track_id)])
LogPlayed(S, table_id, track_id) ==
    Put(S.queue_log, table_id,
        [QueueLogOf(S, table_id) EXCEPT !.played = Append(@, track_id)])

\* ----- payment and royalty distribution -----
final_price(base_price, price_multiplier) ==
    Quot(base_price * price_multiplier, BasisPoints)

fee_amount(payment_amount, fee) == Quot(payment_amount * fee, BasisPoints)

artist_share(royalty_amount, percentage) == Quot(royalty_amount * percentage, Percent)

\* the loop over track.royalty_split: credit the artist record, then transfer
RECURSIVE pay_shares(_, _, _, _)
pay_shares(S, royalty_split, royalty_amount, xfers) ==
    IF royalty_split = << >> THEN Done(S, None, xfers)
    ELSE LET artist_address == Head(royalty_split)[1]
             share == artist_share(royalty_amount, Head(royalty_split)[2])
             S1 == IF Has(S.artists, artist_address)
                   THEN [S EXCEPT !.artists[artist_address] = @ + share]
                   ELSE S
         IN IF ~TransferOk(S1.balance, Contract, share)
            THEN Panic(S, "transfer failed: royalty share")
            ELSE pay_shares(
                    [S1 EXCEPT !.balance = Transfer(@, Contract, artist_address, share)],
                    Tail(royalty_split), royalty_amount,
                    Append(xfers, <<Contract, artist_address, share>>))

distribute_royalties(S, track, payment_amount) ==
    LET fee == fee_amount(payment_amount, Unwrap(S.platform_fee))
        royalty_amount == payment_amount - fee
        adm == Unwrap(S.admin)
    IN IF ~TransferOk(S.balance, Contract, fee)
       THEN Panic(S, "transfer failed: platform fee")
       ELSE pay_shares([S EXCEPT !.balance = Transfer(@, Contract, adm, fee)],
                       track.royalty_split, royalty_amount,
                       << <<Contract, adm, fee>> >>)

\* the transfer of the price from the requester into custody
collect_payment(S, requester, price) ==
    IF ~TransferOk(S.balance, requester, price)
    THEN Panic(S, "transfer failed: payment")
    ELSE Done([S EXCEPT !.balance = Transfer(@, requester, Contract, price)],
              None, << <<requester, Contract, price>> >>)

\* a variant that compares with the wrong operator
licenses_exhausted_below_zero(track) == track.licenses_remaining < 0

licenses_exhausted(track) == track.licenses_remaining = 0

\* sha256("request_" ++ requester ++ track_id ++ timestamp)
request_id_of(requester, track_id, timestamp) == <<requester, track_id, timestamp>>

\* the checks before the price is computed; "" when they all pass
validate_request(S, requester, track_id, table_id) ==
    IF ~Has(S.users, requester) THEN "User not registered"
    ELSE IF ~Has(S.members, <<table_id, requester>>)
    THEN "Must be a table member to request tracks"
    ELSE IF ~Has(S.tracks, track_id) THEN "unwrap on None"
    ELSE IF licenses_exhausted(S.tracks[track_id])
    THEN "No licenses remaining for this track"
    ELSE IF ~Has(S.tables, table_id) THEN "unwrap on None"
    ELSE ""

\* a variant that starts the track at once on a table that plays nothing
record_request_promoting(S, requester, track_id, table_id, timestamp, price) ==
    LET counter == Unwrap(S.request_counter) + 1
        request_id == request_id_of(requester, track_id, timestamp)
        new_request == [requester |-> requester, track_id |-> track_id,
                        table_id |-> table_id, timestamp |-> timestamp,
                        amount_paid |-> price]
        idle == IsNone(S.tables[table_id].current_track)
    IN [S EXCEPT !.requests = Put(@, request_id, new_request),
                 !.request_counter = Some(counter),
                 !.tables[table_id].queue = IF idle THEN @ ELSE Append(@, track_id),
                 !.tables[table_id].current_track = IF idle THEN Some(track_id) ELSE @,
                 !.queue_log = LogAccepted(S, table_id, track_id),
                 !.tracks[track_id].licenses_remaining = @ - 1,
                 !.tracks[track_id].play_count = @ + 1]

\* the writes after the payment: counter, receipt, queue, licence, play count.
\* licenses_remaining is above zero here, the subtraction stays in range.
record_request(S, requester, track_id, table_id, timestamp, price) ==
    LET counter == Unwrap(S.request_counter) + 1
        request_id == request_id_of(requester, track_id, timestamp)
        new_request == [requester |-> requester, track_id |-> track_id,
                        table_id |-> table_id, timestamp |-> timestamp,
                        amount_paid |-> price]
    IN [S EXCEPT !.requests = Put(@, request_id, new_request),
                 !.request_counter = Some(counter),
                 !.tables[table_id].queue = Append(@, track_id),
                 !.queue_log = LogAccepted(S, table_id, track_id),
                 !.tracks[track_id].licenses_remaining = @ - 1,
                 !.tracks[track_id].play_count = @ + 1]

\* a variant that writes first and only reports a failed payment
request_track_paid_last(S, requester, track_id, table_id, timestamp) ==
    LET invalid == validate_request(S, requester, track_id, table_id)
    IN IF invalid # "" THEN Panic(S, invalid)
       ELSE
       LET price == final_price(S.tracks[track_id].base_price,
                                S.tables[table_id].price_multiplier)
           S1 == record_request(S, requester, track_id, table_id, timestamp, price)
           paid == collect_payment(S1, requester, price)
       IN IF ~paid.ok THEN [Panic(S1, paid.err) EXCEPT !.ret = None]
          ELSE LET paidout == distribute_royalties(paid.st, paid.st.tracks[track_id], price)
               IN IF ~paidout.ok THEN Panic(S, paidout.err)
                  ELSE Done(paidout.st,
                            Some(request_id_of(requester, track_id, timestamp)),
                            paid.xfers \o paidout.xfers)

request_track(S, requester, track_id, table_id, timestamp) ==
    LET invalid == validate_request(S, requester, track_id, table_id)
    IN IF invalid # "" THEN Panic(S, invalid)
       ELSE
       LET price == final_price(S.tracks[track_id].base_price,
                                S.tables[table_id].price_multiplier)
           paid == collect_payment(S, requester, price)
       IN IF ~paid.ok THEN Panic(S, paid.err)
          ELSE
          LET S1 == record_request(paid.st, requester, track_id, table_id,
                                   timestamp, price)
              paidout == distribute_royalties(S1, S1.tracks[track_id], price)
          IN IF ~paidout.ok THEN Panic(S, paidout.err)
             ELSE Done(paidout.st,
                       Some(request_id_of(requester, track_id, timestamp)),
                       paid.xfers \o paidout.xfers)

withdraw_revenue(S, artist) ==
    IF ~Has(S.artists, artist) THEN Panic(S, "Not registered as artist")
    ELSE LET amount == S.artists[artist]
             S1 == [S EXCEPT !.artists[artist] = 0]
         IN IF IsNone(S.admin) THEN Panic(S, "unwrap on None")
            ELSE IF ~TransferOk(S1.balance, Contract, amount)
            THEN Panic(S, "transfer failed: withdrawal")
            ELSE Done([S1 EXCEPT !.balance = Transfer(@, Contract, artist, amount)],
                      Some(amount), << <<Contract, artist, amount>> >>)

\* a variant whose callback runs before the balance is zeroed
withdraw_revenue_reentered_transfer_first(S, artist) ==
    IF ~Has(S.artists, artist) THEN Panic(S, "Not registered as artist")
    ELSE LET amount == S.artists[artist]
             inner == withdraw_revenue(S, artist)
             S1 == [inner.st EXCEPT !.artists[artist] = 0]
         IN IF ~inner.ok THEN Panic(S, inner.err)
            ELSE IF ~TransferOk(S1.balance, Contract, amount)
            THEN Panic(S, "transfer failed: withdrawal")
            ELSE Done([S1 EXCEPT !.balance = Transfer(@, Contract, artist, amount)],
                      Some(amount),
                      inner.xfers \o << <<Contract, artist, amount>> >>)

\* withdraw_revenue with a token whose transfer calls withdraw_revenue again
\* before it returns: the inner call runs on the storage as it is when
\* token_client.transfer is issued, after the zeroed record is stored
withdraw_revenue_reentered(S, artist) ==
    IF ~Has(S.artists, artist) THEN Panic(S, "Not registered as artist")
    ELSE LET amount == S.artists[artist]
             S1 == [S EXCEPT !.artists[artist] = 0]
             inner == withdraw_revenue(S1, artist)
         IN IF ~inner.ok THEN Panic(S, inner.err)
            ELSE IF ~TransferOk(inner.st.balance, Contract, amount)
            THEN Panic(S, "transfer failed: withdrawal")
            ELSE Done([inner.st EXCEPT !.balance = Transfer(@, Contract, artist, amount)],
                      Some(amount),
                      inner.xfers \o << <<Contract, artist, amount>> >>)

\* ----- table session engine -----
advance_queue(S, table_id) ==
    IF ~Has(S.tables, table_id) THEN Panic(S, "unwrap on None")
    ELSE LET table == S.tables[table_id]
             logged == Put(S.advance_log, table_id, table.queue = << >>)
         IN IF table.queue = << >>
            THEN Done([S EXCEPT !.tables[table_id] = [table EXCEPT !.current_track = None],
                                !.advance_log = logged],
                      None, << >>)
            ELSE LET next_track == Head(table.queue)
                 IN Done([S EXCEPT !.tables[table_id] =
                                       [table EXCEPT !.queue = Tail(@),
                                                     !.current_track = Some(next_track),
                                                     !.skip_votes = {}],
                                   !.advance_log = logged,
                                   !.queue_log = LogPlayed(S, table_id, next_track)],
                         Some(next_track), << >>)

\* a variant that counts a repeated vote of the caller once more
vote_to_skip_counting_calls(S, user, table_id) ==
    IF ~Has(S.users, user) THEN Panic(S, "User not registered")
    ELSE IF ~Has(S.tables, table_id) THEN Panic(S, "unwrap on None")
    ELSE IF IsNone(S.tables[table_id].current_track)
    THEN Panic(S, "No track currently playing")
    ELSE LET table == [S.tables[table_id] EXCEPT !.skip_votes = @ \cup {user}]
             vote_count == Cardinality(table.skip_votes)
                           + (IF user \in S.tables[table_id].skip_votes THEN 1 ELSE 0)
             should_skip == vote_count >= table.skip_threshold
         IN IF should_skip
            THEN LET advanced == advance_queue(S, table_id)
                     cleared == [table EXCEPT !.skip_votes = {}]
                 IN Done([advanced.st EXCEPT !.tables[table_id] = cleared],
                         Some(TRUE), << >>)
            ELSE Done([S EXCEPT !.tables[table_id] = table], Some(FALSE), << >>)

\* skip_votes is a Map<Address, bool> in which only `true` is ever stored: the set
\* of its keys.  `table` is the copy loaded before advance_queue runs; it is the
\* copy that is stored last.
vote_to_skip(S, user, table_id) ==
    IF ~Has(S.users, user) THEN Panic(S, "User not registered")
    ELSE IF ~Has(S.tables, table_id) THEN Panic(S, "unwrap on None")
    ELSE IF IsNone(S.tables[table_id].current_track)
    THEN Panic(S, "No track currently playing")
    ELSE LET table == [S.tables[table_id] EXCEPT !.skip_votes = @ \cup {user}]
             vote_count == Cardinality(table.skip_votes)
             should_skip == vote_count >= table.skip_threshold
         IN IF should_skip
            THEN LET advanced == advance_queue(S, table_id)
                     cleared == [table EXCEPT !.skip_votes = {}]
                 IN Done([advanced.st EXCEPT !.tables[table_id] = cleared],
                         Some(TRUE), << >>)
            ELSE Done([S EXCEPT !.tables[table_id] = table], Some(FALSE), << >>)

advance_queue_public(S, caller, table_id) ==
    IF ~Has(S.tables, table_id) THEN Panic(S, "unwrap on None")
    ELSE IF S.tables[table_id].owner # caller
            /\ ~Has(S.members, <<table_id, caller>>)
    THEN Panic(S, "Not authorized")
    ELSE IF S.tables[table_id].owner # caller
            /\ ~S.members[<<table_id, caller>>]
    THEN Panic(S, "Not authorized")
    ELSE advance_queue(S, table_id)

\* u32 `+= 1` and `-= 1`: past the range the call panics in a build with
\* overflow checks and wraps around in a build without them
Incremented(n, checked) ==
    IF n < U32Max THEN Some(n + 1) ELSE IF checked THEN None ELSE Some(0)
Decremented(n, checked) ==
    IF n > 0 THEN Some(n - 1) ELSE IF checked THEN None ELSE Some(U32Max)

join_table(S, user, table_id, checked) ==
    IF ~Has(S.users, user) THEN Panic(S, "User not registered")
    ELSE IF ~Has(S.tables, table_id) THEN Panic(S, "Table not found")
    ELSE IF ~S.tables[table_id].is_active THEN Panic(S, "Table is closed")
    ELSE IF Has(S.members, <<table_id, user>>) THEN Panic(S, "Already a member of this table")
    ELSE LET count == Incremented(S.tables[table_id].member_count, checked)
         IN IF IsNone(count) THEN Panic(S, "attempt to add with overflow")
            ELSE Done([S EXCEPT !.members = Put(@, <<table_id, user>>, FALSE),
                                !.tables[table_id].member_count = Unwrap(count)],
                      None, << >>)

leave_table(S, user, table_id, checked) ==
    IF ~Has(S.members, <<table_id, user>>) THEN Panic(S, "Not a member of this table")
    ELSE IF ~Has(S.tables, table_id) THEN Panic(S, "unwrap on None")
    ELSE LET count == Decremented(S.tables[table_id].member_count, checked)
         IN IF IsNone(count) THEN Panic(S, "attempt to subtract with overflow")
            ELSE Done([S EXCEPT !.members = Remove(@, <<table_id, user>>),
                                !.tables[table_id].member_count = Unwrap(count)],
                      None, << >>)

add_table_admin(S, owner, table_id, new_admin) ==
    IF ~Has(S.tables, table_id) THEN Panic(S, "unwrap on None")
    ELSE IF S.tables[table_id].owner # owner THEN Panic(S, "Not table owner")
    ELSE Done([S EXCEPT !.members = Put(@, <<table_id, new_admin>>, TRUE),
                        !.table_admins = @ \cup {<<table_id, new_admin>>}],
              None, << >>)

remove_table_admin(S, owner, table_id, target) ==
    IF ~Has(S.tables, table_id) THEN Panic(S, "unwrap on None")
    ELSE IF S.tables[table_id].owner # owner THEN Panic(S, "Not table owner")
    ELSE Done([S EXCEPT !.members = Put(@, <<table_id, target>>, FALSE),
                        !.table_admins = @ \ {<<table_id, target>>}],
              None, << >>)

set_table_status(S, owner, table_id, active) ==
    IF ~Has(S.tables, table_id) THEN Panic(S, "unwrap on None")
    ELSE IF S.tables[table_id].owner # owner THEN Panic(S, "Not table owner")
    ELSE LET table == [S.tables[table_id] EXCEPT !.is_active = active]
         IN Done([S EXCEPT !.tables[table_id] =
                      IF ~active THEN [table EXCEPT !.queue = << >>, !.current_track = None]
                      ELSE table,
                           !.queue_log =
                      IF ~active THEN Put(@, table_id, NoQueueLog) ELSE @],
                 None, << >>)

\* ----- the state machine -----
NoArgs == [user |-> "", track |-> 0, table |-> 0, target |-> ""]

\* the storage of a freshly deployed contract
Deployed ==
    [ admin |-> None, platform_fee |-> None, users |-> EmptyMap,
      nft_to_user |-> EmptyMap, artists |-> EmptyMap, tracks |-> EmptyMap,
      tables |-> EmptyMap, requests |-> EmptyMap, track_counter |-> None,
      table_counter |-> None, request_counter |-> None, members |-> EmptyMap,
      table_admins |-> {}, balance |-> InitialBalance, advance_log |-> EmptyMap,
      queue_log |-> EmptyMap ]

StorageIs(S) ==
    /\ admin = S.admin
    /\ platform_fee = S.platform_fee
    /\ users = S.users
    /\ nft_to_user = S.nft_to_user
    /\ artists = S.artists
    /\ tracks = S.tracks
    /\ tables = S.tables
    /\ requests = S.requests
    /\ track_counter = S.track_counter
    /\ table_counter = S.table_counter
    /\ request_counter = S.request_counter
    /\ members = S.members
    /\ table_admins = S.table_admins
    /\ balance = S.balance
    /\ advance_log = S.advance_log
    /\ queue_log = S.queue_log

StartAt(S) ==
    /\ StorageIs(S)
    /\ now = 0
    /\ overflow_checks \in BOOLEAN
    /\ last = [op |-> "setup", args |-> NoArgs, ok |-> TRUE, err |-> "", ret |-> None,
               xfers |-> << >>, pre |-> S]

Init == StartAt(Deployed)

\* a call ends: its writes are stored (a panicking call has none) and it is recorded
Commit(op, args, out) ==
    /\ admin' = out.st.admin
    /\ platform_fee' = out.st.platform_fee
    /\ users' = out.st.users
    /\ nft_to_user' = out.st.nft_to_user
    /\ artists' = out.st.artists
    /\ tracks' = out.st.tracks
    /\ tables' = out.st.tables
    /\ requests' = out.st.requests
    /\ track_counter' = out.st.track_counter
    /\ table_counter' = out.st.table_counter
    /\ request_counter' = out.st.request_counter
    /\ members' = out.st.members
    /\ table_admins' = out.st.table_admins
    /\ balance' = out.st.balance
    /\ advance_log' = out.st.advance_log
    /\ queue_log' = out.st.queue_log
    /\ now' = now
    /\ overflow_checks' = overflow_checks
    /\ last' = [op |-> op, args |-> args, ok |-> out.ok, err |-> out.err,
                ret |-> out.ret, xfers |-> out.xfers, pre |-> Storage]

\* the identifiers a call is tried with: the stored ones and one that is not stored
TrackIds == 1..(Cardinality(DOMAIN tracks) + 1)
TableIds == 1..(Cardinality(DOMAIN tables) + 1)

Initialize ==
    \E fee \in FeeInputs :
        Commit("initialize", [NoArgs EXCEPT !.user = PlatformAdmin, !.track = fee],
               initialize(Storage, PlatformAdmin, fee))

UpdatePlatformFee ==
    \E fee \in FeeInputs :
        Commit("update_platform_fee", [NoArgs EXCEPT !.track = fee],
               update_platform_fee(Storage, fee))

RegisterUser ==
    \E user \in Users, nft \in NFTs :
        Commit("register_user", [NoArgs EXCEPT !.user = user, !.target = nft],
               register_user(Storage, user, nft))

RegisterArtist ==
    \E user \in Users :
        Commit("register_artist", [NoArgs EXCEPT !.user = user],
               register_artist(Storage, user))

MintTrack ==
    \E artist \in Users, price \in PriceInputs, licenses \in LicenseInputs,
       split \in SplitInputs :
        LET out == mint_track(Storage, artist, price, licenses, split)
        IN /\ out.ok => Unwrap(track_counter) < MaxTracks
           /\ Commit("mint_track", [NoArgs EXCEPT !.user = artist], out)

UpdateTrack ==
    \E artist \in Users, track_id \in TrackIds, price \in PriceInputs,
       licenses \in LicenseInputs :
        Commit("update_track", [NoArgs EXCEPT !.user = artist, !.track = track_id],
               update_track(Storage, artist, track_id, price, licenses))

CreateTable ==
    \E owner \in Users, threshold \in ThresholdInputs, multiplier \in MultiplierInputs :
        LET out == create_table(Storage, owner, threshold, multiplier)
        IN /\ out.ok => Unwrap(table_counter) < MaxTables
           /\ Commit("create_table", [NoArgs EXCEPT !.user = owner], out)

UpdateTable ==
    \E owner \in Users, table_id \in TableIds, threshold \in ThresholdInputs,
       multiplier \in MultiplierInputs :
        Commit("update_table", [NoArgs EXCEPT !.user = owner, !.table = table_id],
               update_table(Storage, owner, table_id, threshold, multiplier))

RequestTrack ==
    \E requester \in Users, track_id \in TrackIds, table_id \in TableIds :
        LET out == request_track(Storage, requester, track_id, table_id, now)
        IN /\ out.ok => Unwrap(request_counter) < MaxRequests
           /\ Commit("request_track",
                     [NoArgs EXCEPT !.user = requester, !.track = track_id,
                                    !.table = table_id], out)

\* the call stays within the bound on the pops of the table's queue
WithinPlays(out, table_id) ==
    out.ok => Len(QueueLogOf(out.st, table_id).played) <= MaxPlays

VoteToSkip ==
    \E user \in Users, table_id \in TableIds :
        LET out == vote_to_skip(Storage, user, table_id)
        IN /\ WithinPlays(out, table_id)
           /\ Commit("vote_to_skip", [NoArgs EXCEPT !.user = user, !.table = table_id],
                     out)

AdvanceQueue ==
    \E table_id \in TableIds :
        LET out == advance_queue(Storage, table_id)
        IN /\ WithinPlays(out, table_id)
           /\ Commit("advance_queue", [NoArgs EXCEPT !.table = table_id], out)

AdvanceQueuePublic ==
    \E caller \in Users, table_id \in TableIds :
        LET out == advance_queue_public(Storage, caller, table_id)
        IN /\ WithinPlays(out, table_id)
           /\ Commit("advance_queue_public",
                     [NoArgs EXCEPT !.user = caller, !.table = table_id], out)

WithdrawRevenue ==
    \E artist \in Users :
        Commit("withdraw_revenue", [NoArgs EXCEPT !.user = artist],
               withdraw_revenue(Storage, artist))

WithdrawRevenueReentered ==
    \E artist \in Users :
        Commit("withdraw_revenue_reentered", [NoArgs EXCEPT !.user = artist],
               withdraw_revenue_reentered(Storage, artist))

JoinTable ==
    \E user \in Users, table_id \in TableIds :
        Commit("join_table", [NoArgs EXCEPT !.user = user, !.table = table_id],
               join_table(Storage, user, table_id, overflow_checks))

LeaveTable ==
    \E user \in Users, table_id \in TableIds :
        LET out == leave_table(Storage, user, table_id, overflow_checks)
        IN /\ out.ok => \/ out.st.tables[table_id].member_count <= Cardinality(Users)
                        \/ out.st.tables[table_id].member_count > U32Max - MaxUnderflow
           /\ Commit("leave_table", [NoArgs EXCEPT !.user = user, !.table = table_id],
                     out)

AddTableAdmin ==
    \E owner \in Users, table_id \in TableIds, new_admin \in Users :
        Commit("add_table_admin",
               [NoArgs EXCEPT !.user = owner, !.table = table_id, !.target = new_admin],
               add_table_admin(Storage, owner, table_id, new_admin))

RemoveTableAdmin ==
    \E owner \in Users, table_id \in TableIds, target \in Users :
        Commit("remove_table_admin",
               [NoArgs EXCEPT !.user = owner, !.table = table_id, !.target = target],
               remove_table_admin(Storage, owner, table_id, target))

SetTableStatus ==
    \E owner \in Users, table_id \in TableIds, active \in BOOLEAN :
        Commit("set_table_status",
               [NoArgs EXCEPT !.user = owner, !.table = table_id,
                              !.target = IF active THEN "active" ELSE "inactive"],
               set_table_status(Storage, owner, table_id, active))

\* the ledger closes: the timestamp the next calls see is later
Tick ==
    /\ now < MaxTime
    /\ now' = now + 1
    /\ UNCHANGED << storage_vars, overflow_checks, last >>

\* a holder of the token transfers to the contract's address, outside any call of
\* the contract
Donate ==
    \E donor \in Users :
        /\ balance[Contract] < MaxDonation
        /\ TransferOk(balance, donor, MaxDonation)
        /\ Commit("token_transfer", [NoArgs EXCEPT !.user = donor],
                  Done([Storage EXCEPT !.balance = Transfer(@, donor, Contract, MaxDonation)],
                       None, << <<donor, Contract, MaxDonation>> >>))

\* ----- the contract from its deployment: configuration, registry, catalog -----
Next ==
    \/ Initialize
    \/ UpdatePlatformFee
    \/ RegisterUser
    \/ RegisterArtist
    \/ MintTrack
    \/ UpdateTrack
    \/ CreateTable
    \/ UpdateTable

Spec == Init /\ [][Next]_vars

\* ----- a venue that is set up: the calls that lead to it, applied in order -----
\* initialize; both users register; u1 becomes an artist and mints a track of
\* price 1000 with two licences, paid to u1 alone, and a track of price 3 with
\* one licence, split between u1 and u2;
\* u1 opens a table.
VenueOpened(fee, threshold, multiplier) ==
    LET S1 == initialize(Deployed, PlatformAdmin, fee).st
        S2 == register_user(S1, "u1", "nft1").st
        S3 == register_user(S2, "u2", "nft2").st
        S4 == register_artist(S3, "u1").st
        S5 == mint_track(S4, "u1", 1000, 2, << <<"u1", 100>> >>).st
        S6 == mint_track(S5, "u1", 3, 1, << <<"u1", 50>>, <<"u2", 50>> >>).st
    IN create_table(S6, "u1", threshold, multiplier).st

\* ... and both users have joined it
VenueJoined(fee, threshold, multiplier) ==
    LET S1 == join_table(VenueOpened(fee, threshold, multiplier), "u1", 1, TRUE).st
    IN join_table(S1, "u2", 1, TRUE).st

\* ----- membership of a table -----
InitMembers == StartAt(VenueOpened(500, 2, 10000))

NextMembers ==
    \/ JoinTable
    \/ LeaveTable
    \/ AddTableAdmin
    \/ RemoveTableAdmin
    \/ SetTableStatus

SpecMembers == InitMembers /\ [][NextMembers]_vars

\* ----- the queue of a table and its skip votes -----
InitQueue == \E threshold \in ThresholdInputs : StartAt(VenueJoined(500, threshold, 10000))

NextQueue ==
    \/ RequestTrack
    \/ VoteToSkip
    \/ AdvanceQueue
    \/ AdvanceQueuePublic
    \/ SetTableStatus

SpecQueue == InitQueue /\ [][NextQueue]_vars

\* ----- payments -----
InitPayments ==
    \E fee \in FeeInputs, multiplier \in MultiplierInputs :
        StartAt(VenueJoined(fee, 2, multiplier))

NextPayments ==
    \/ RequestTrack
    \/ WithdrawRevenue
    \/ WithdrawRevenueReentered
    \/ UpdatePlatformFee
    \/ Donate
    \/ Tick

SpecPayments == InitPayments /\ [][NextPayments]_vars

\* ----- the catalog while requests are served -----
InitCatalog == StartAt(VenueJoined(500, 2, 10000))

NextCatalog ==
    \/ RequestTrack
    \/ UpdateTrack

SpecCatalog == InitCatalog /\ [][NextCatalog]_vars

\* ----- voting while members come and go -----
\* ... and u1 has requested track 1, which advance_queue has made current
VenuePlaying(fee, threshold, multiplier) ==
    LET S1 == request_track(VenueJoined(fee, threshold, multiplier), "u1", 1, 1, 0).st
    IN advance_queue(S1, 1).st

InitVoting == \E threshold \in ThresholdInputs : StartAt(VenuePlaying(500, threshold, 10000))

NextVoting ==
    \/ VoteToSkip
    \/ JoinTable
    \/ LeaveTable

SpecVoting == InitVoting /\ [][NextVoting]_vars

\* ----- properties -----
CallTable == last.args.table
CallTrack == last.args.track
CallUser == last.args.user
TableBefore == last.pre.tables[CallTable]
Advanced(queue) == IF queue = << >> THEN << >> ELSE Tail(queue)
HeadOf(queue) == IF queue = << >> THEN None ELSE Some(Head(queue))
TallyWith(votes, user) == Cardinality(votes \cup {user})

\* C1: a vote_to_skip that brings the tally of distinct voters to the threshold
\* returns true and stores the advanced table: current_track is the former head of
\* the queue (None for an empty queue), the head is removed, the vote set is
\* empty; a vote below the threshold returns false and changes the vote set only.
C1_SkipVoteAdvancesQueue ==
    (last.op = "vote_to_skip" /\ last.ok) =>
        IF TallyWith(TableBefore.skip_votes, CallUser) >= TableBefore.skip_threshold
        THEN /\ last.ret = Some(TRUE)
             /\ tables[CallTable].current_track = HeadOf(TableBefore.queue)
             /\ tables[CallTable].queue = Advanced(TableBefore.queue)
             /\ tables[CallTable].skip_votes = {}
        ELSE /\ last.ret = Some(FALSE)
             /\ Storage = [last.pre EXCEPT
                              !.tables[CallTable].skip_votes = @ \cup {CallUser}]

\* C2: a table without a current track has an empty skip-vote set.
C2_IdleTableHasNoVotes ==
    \A t \in DOMAIN tables :
        IsNone(tables[t].current_track) => tables[t].skip_votes = {}

\* C3: after every advance_queue call the skip-vote set of the table is empty,
\* whether or not the call popped a track.
C3_AdvanceClearsVotes ==
    (last.op \in {"advance_queue", "advance_queue_public"} /\ last.ok) =>
        tables[CallTable].skip_votes = {}

\* C4: current_track is None exactly when the queue was empty at the most recent
\* advance_queue call on the table.
C4_IdleIffLastAdvanceFoundEmptyQueue ==
    \A t \in DOMAIN tables :
        Has(advance_log, t) => (IsNone(tables[t].current_track) <=> advance_log[t])

MemberRecords(t) == {k \in DOMAIN members : k[1] = t}

\* C5: member_count of a table equals the number of TableMembers records of it.
C5_MemberCountMatchesRecords ==
    \A t \in DOMAIN tables : tables[t].member_count = Cardinality(MemberRecords(t))

\* C6: every accepted request is stored under an identifier of its own, so the
\* number of stored receipts equals RequestIdCounter.
C6_OneReceiptPerRequest ==
    ~IsNone(request_counter) => Cardinality(DOMAIN requests) = Unwrap(request_counter)

RequestOnStoredTrackAndTable ==
    /\ last.op = "request_track"
    /\ Has(last.pre.tracks, CallTrack)
    /\ Has(last.pre.tables, CallTable)
\* the requester's balance is below base_price * price_multiplier / 10000
CannotPay ==
    (last.pre.balance[CallUser] + 1) * BasisPoints
        <= last.pre.tracks[CallTrack].base_price * TableBefore.price_multiplier

\* C7: a request_track whose payment cannot be collected fails and changes
\* nothing: queue, track, counters, receipts, revenue and token balances are as
\* before the call.
C7_FailedPaymentChangesNothing ==
    (RequestOnStoredTrackAndTable /\ CannotPay) => (~last.ok /\ Storage = last.pre)

C7_Witness ==
    /\ RequestOnStoredTrackAndTable
    /\ CannotPay
    /\ last.err = "transfer failed: payment"

\* C8: a request_track for a track with no licence left fails and changes
\* nothing, and licenses_remaining is never below zero.
C8_ExhaustedTrackIsRefused ==
    /\ (last.op = "request_track" /\ Has(last.pre.tracks, CallTrack)
           /\ last.pre.tracks[CallTrack].licenses_remaining = 0)
        => (~last.ok /\ Storage = last.pre)
    /\ \A t \in DOMAIN tracks : tracks[t].licenses_remaining >= 0

C8_Witness ==
    /\ last.op = "request_track"
    /\ last.err = "No licenses remaining for this track"
    /\ last.pre.tracks[CallTrack].play_count > 0

Amounts(xfers) == [i \in 1..Len(xfers) |-> xfers[i][3]]
\* q is n / d rounded toward zero, for d > 0
IsTruncated(q, n, d) ==
    IF n >= 0 THEN q * d <= n /\ n < (q + 1) * d
    ELSE (q - 1) * d < n /\ n <= q * d

\* C9: in an accepted request_track the payment is base_price * price_multiplier
\* / 10000 truncated, the fee is payment * platform_fee / 10000 truncated, each
\* share is (payment - fee) * percentage / 100 truncated, the shares sum to at
\* most payment - fee, and no more than the payment leaves custody.
C9_NoValueCreated ==
    (last.op = "request_track" /\ last.ok) =>
        LET track == last.pre.tracks[CallTrack]
            split == track.royalty_split
            paid == last.xfers[1][3]
            fee == last.xfers[2][3]
            shares == Amounts(SubSeq(last.xfers, 3, Len(last.xfers)))
        IN /\ Len(last.xfers) = Len(split) + 2
           /\ last.xfers[1] = <<CallUser, Contract, paid>>
           /\ paid >= 0
           /\ IsTruncated(paid, track.base_price * TableBefore.price_multiplier,
                          BasisPoints)
           /\ last.xfers[2] = <<Contract, Unwrap(last.pre.admin), fee>>
           /\ IsTruncated(fee, paid * Unwrap(last.pre.platform_fee), BasisPoints)
           /\ \A i \in 1..Len(split) :
                 /\ last.xfers[i + 2] = <<Contract, split[i][1], shares[i]>>
                 /\ IsTruncated(shares[i], (paid - fee) * split[i][2], Percent)
           /\ SumSeq(shares) <= paid - fee
           /\ fee + SumSeq(shares) <= paid
           /\ balance[Contract] >= last.pre.balance[Contract]

\* C10: the stored platform fee is at most 2000 basis points.
C10_StoredFeeWithinCap ==
    ~IsNone(platform_fee) => Unwrap(platform_fee) <= FeeCap

\* C11: a successful withdraw_revenue returns the revenue_balance the artist had
\* before the call, moves exactly that amount from custody to the artist and
\* leaves the stored balance at 0, also when the transfer re-enters
\* withdraw_revenue: the re-entered call sees the balance already zeroed.
C11_WithdrawPaysBalanceOnce ==
    (last.op \in {"withdraw_revenue", "withdraw_revenue_reentered"} /\ last.ok) =>
        LET owed == last.pre.artists[CallUser]
        IN /\ last.ret = Some(owed)
           /\ \A i \in 1..Len(last.xfers) :
                 last.xfers[i][1] = Contract /\ last.xfers[i][2] = CallUser
           /\ SumSeq(Amounts(last.xfers)) = owed
           /\ Storage = [last.pre EXCEPT
                            !.artists[CallUser] = 0,
                            !.balance = Transfer(@, Contract, CallUser, owed)]

C11_Witness ==
    /\ last.op = "withdraw_revenue_reentered"
    /\ last.ok
    /\ last.pre.artists[CallUser] > 0
    /\ Len(last.xfers) = 2

VoteOnPlayingTable ==
    /\ last.op = "vote_to_skip"
    /\ Has(last.pre.users, CallUser)
    /\ Has(last.pre.tables, CallTable)
    /\ ~IsNone(TableBefore.current_track)

C13_JoinPreconditions ==
    last.op = "join_table" =>
        LET registered == Has(last.pre.users, CallUser)
            exists == Has(last.pre.tables, CallTable)
            active == exists /\ TableBefore.is_active
            member == Has(last.pre.members, <<CallTable, CallUser>>)
        IN /\ last.ok <=> (registered /\ active /\ ~member)
           /\ (registered /\ exists /\ ~active) => last.err = "Table is closed"
           /\ (registered /\ active /\ member)
               => last.err = "Already a member of this table"
           /\ ~last.ok => Storage = last.pre
           /\ last.ok =>
                 /\ tables[CallTable].member_count - TableBefore.member_count = 1
                 /\ Storage = [last.pre EXCEPT
                                  !.members = Put(@, <<CallTable, CallUser>>, FALSE),
                                  !.tables[CallTable].member_count =
                                      tables[CallTable].member_count]

Exhausted(catalog, t) == Has(catalog, t) /\ catalog[t].licenses_remaining = 0

\* C14: a track whose licenses_remaining is 0 stays stored with
\* licenses_remaining 0 in every later state, whatever is called, so that no
\* later request_track for it is accepted.
C14_ExhaustionIsPermanent ==
    [][\A t \in DOMAIN tracks : Exhausted(tracks, t) => Exhausted(tracks', t)]_vars

\* C15: every amount a call of the contract passes to the token's transfer is
\* above zero: the payment, the platform fee and each royalty share of
\* request_track, and the amount withdraw_revenue pays out.
C15_TransfersArePositive ==
    (last.op \in {"request_track", "withdraw_revenue", "withdraw_revenue_reentered"}
        /\ last.ok)
    => \A i \in 1..Len(last.xfers) : last.xfers[i][3] > 0

\* C16: leave_table succeeds exactly when a membership record exists for
\* (table, user), however the record was created; it then deletes the record
\* and lowers member_count by exactly one; otherwise it fails with "Not a
\* member of this table" and changes nothing.
C16_LeaveSucceedsForEveryRecord ==
    last.op = "leave_table" =>
        LET member == Has(last.pre.members, <<CallTable, CallUser>>)
        IN /\ last.ok <=> member
           /\ ~last.ok => (last.err = "Not a member of this table" /\ Storage = last.pre)
           /\ last.ok =>
                 /\ TableBefore.member_count - tables[CallTable].member_count = 1
                 /\ Storage = [last.pre EXCEPT
                                  !.members = Remove(@, <<CallTable, CallUser>>),
                                  !.tables[CallTable].member_count =
                                      tables[CallTable].member_count]

\* the caller is the owner of the table or holds a membership record with is_admin
MayAdvance(S, caller, t) ==
    \/ S.tables[t].owner = caller
    \/ (Has(S.members, <<t, caller>>) /\ S.members[<<t, caller>>])

\* the call popped the head of the queue into current_track
PoppedQueue ==
    /\ last.ok
    /\ Has(last.pre.tables, CallTable)
    /\ TableBefore.queue # << >>
    /\ tables[CallTable].queue = Tail(TableBefore.queue)
    /\ tables[CallTable].current_track = Some(Head(TableBefore.queue))

\* C17: a call other than vote_to_skip that pops the queue of a table is made by
\* the owner of the table or by a member with is_admin, and advance_queue_public
\* by anyone else fails with "Not authorized" and changes nothing.
C17_OnlyOwnerOrAdminAdvances ==
    /\ (PoppedQueue /\ last.op # "vote_to_skip")
        => MayAdvance(last.pre, CallUser, CallTable)
    /\ (last.op = "advance_queue_public" /\ Has(last.pre.tables, CallTable)
            /\ ~MayAdvance(last.pre, CallUser, CallTable))
        => (~last.ok /\ last.err = "Not authorized" /\ Storage = last.pre)

\* the failures of request_track that happen before its first write
FailuresBeforeWrites ==
    { "User not registered", "Must be a table member to request tracks",
      "unwrap on None", "No licenses remaining for this track",
      "transfer failed: payment" }

\* C18: a request_track that fails has failed in a check or in the collection of
\* the payment, before its first write: no step after the payment fails.
C18_NoFailureAfterPayment ==
    (last.op = "request_track" /\ ~last.ok) => last.err \in FailuresBeforeWrites

\* C19: an accepted request_track appends the track to the tail of the queue of
\* its table and changes nothing else of any table: current_track, skip votes,
\* member_count and is_active are as before, an idle table stays idle.
C19_RequestOnlyEnqueues ==
    (last.op = "request_track" /\ last.ok) =>
        tables = [last.pre.tables EXCEPT ![CallTable].queue = Append(@, CallTrack)]

C19_Witness ==
    /\ last.op = "request_track"
    /\ last.ok
    /\ IsNone(TableBefore.current_track)
    /\ TableBefore.queue = << >>
    /\ IsNone(tables[CallTable].current_track)
    /\ tables[CallTable].queue = << CallTrack >>

\* C20: on every table the tracks made current by advance_queue calls since the
\* table was last deactivated, followed by the tracks still queued, are the
\* tracks accepted on it since then, in the order of acceptance; an
\* advance_queue call on a non-empty queue makes the head current, removes it
\* and returns it, and on an empty queue sets current_track to None and
\* returns nothing.
C20_QueueIsFifo ==
    /\ \A t \in DOMAIN tables :
          QueueLogOf(Storage, t).played \o tables[t].queue
              = QueueLogOf(Storage, t).accepted
    /\ (last.op \in {"advance_queue", "advance_queue_public"} /\ last.ok) =>
          /\ last.ret = HeadOf(TableBefore.queue)
          /\ tables[CallTable].current_track = HeadOf(TableBefore.queue)
          /\ tables[CallTable].queue = Advanced(TableBefore.queue)

\* the sum of the revenue_balance of the artist records of `who`
RECURSIVE RevenueOwed(_, _)
RevenueOwed(registry, who) ==
    IF who = {} THEN 0
    ELSE LET a == CHOOSE x \in who : TRUE
         IN registry[a] + RevenueOwed(registry, who \ {a})

\* C21: the token balance of the contract is at least the sum of the stored
\* revenue_balance of all artists, and a withdraw_revenue by a registered
\* artist does not fail.
C21_CustodyCoversRevenue ==
    /\ balance[Contract] >= RevenueOwed(artists, DOMAIN artists)
    /\ (last.op \in {"withdraw_revenue", "withdraw_revenue_reentered"}
           /\ Has(last.pre.artists, CallUser))
        => last.ok

\* C22: every address in the skip-vote set of a table holds a membership record
\* of that table.
C22_VotersAreMembers ==
    \A t \in DOMAIN tables :
        \A u \in tables[t].skip_votes : Has(members, <<t, u>>)

\* C23: a table that is not active has an empty queue and no current track, and
\* a request_track on it is not accepted.
C23_InactiveTableStaysEmpty ==
    /\ \A t \in DOMAIN tables :
          ~tables[t].is_active =>
              (tables[t].queue = << >> /\ IsNone(tables[t].current_track))
    /\ (last.op = "request_track" /\ Has(last.pre.tables, CallTable)
           /\ ~TableBefore.is_active)
        => ~last.ok

\* C24: a TableAdmins entry exists for (table, user) exactly when a TableMembers
\* record exists for (table, user) with is_admin = true.
C24_AdminIndexMatchesRecords ==
    \A t \in DOMAIN tables, u \in Users :
        (<<t, u>> \in table_admins)
            <=> (Has(members, <<t, u>>) /\ members[<<t, u>>])

====
